---- MODULE Spec2Model ----
(***************************************************************************)
(* Spatial_Slice: a dense 2-dimensional grid (Space) and the read-only     *)
(* (SubSpace) and mutable (SubSpaceMut) rectangular views over it, with    *)
(* their coordinate resolver, split operations and row-major iterator.     *)
(*                                                                         *)
(* usize is modelled as an unsigned integer of WordBits bits.  A Rust      *)
(* arithmetic overflow panics when the crate is built with overflow        *)
(* checks (the debug profile) and wraps modulo 2^WordBits when it is not   *)
(* (the release profile); the build is chosen in Init and both are         *)
(* explored.                                                               *)
(***************************************************************************)
EXTENDS Integers, Sequences, FiniteSets, TLC

\* ------------------------------------------------------------------ bounds
WordBits == 4
MaxWidth == 2
MaxHeight == 2
MaxCoord == 2
MaxOps == 2

Mod == 2 ^ WordBits
UsizeMax == Mod - 1

\* the value new_flat fills with (1u32 in the tests) and the value set writes
FlatValues == {1}

SetValues == {7}

\* the coordinates and split values the view calls are issued with
Coords == 0 .. MaxCoord

\* the coordinates the Space calls are issued with
SpaceCoords == Coords \cup {UsizeMax}

PosTypes == {"Absolute", "Relative"}

VARIABLES
    overflow_checks,   \* TRUE: overflow panics (debug); FALSE: wraps (release)
    width,             \* Space.width
    height,            \* Space.height
    data,              \* Space.data, data[i + 1] is the element at index i
    borrow,            \* "none", "shared" (SubSpace) or "mut" (SubSpaceMut)
    subspaces,         \* the SubSpace values that exist (SubSpace is Clone)
    subspaces_mut,     \* the SubSpaceMut values, alive or consumed (moved)
    iter,              \* the SubSpaceIter in use
    last,              \* the last call and what it returned
    panicked,          \* a call has panicked: the program is aborted
    ops,               \* number of state-changing calls made so far
    mapping            \* the Space::new_mapped call under way, and its calls of func

vars ==
    <<overflow_checks, width, height, data, borrow, subspaces, subspaces_mut,
      iter, last, panicked, ops, mapping>>

\* ------------------------------------------------------- usize arithmetic
Overflows(n) == n < 0 \/ n > UsizeMax

Wrap(n) == n % Mod

\* an arithmetic result n aborts the call
OverflowPanics(n) == overflow_checks /\ Overflows(n)

None == [tag |-> "None"]

Panic == [tag |-> "Panic"]

\* ------------------------------------------------------------------ Space
\* vec![value; width * height]
new_flat(value, w, h) == [i \in 1 .. (w * h) |-> value]

\* the generator of subspace.rs iter_test: |x, y| 10 * y + x
func(x, y) == 10 * y + x

\* for y in 0 .. height { for x in 0 .. width { vec.push(func(x, y)) } }
new_mapped(w, h) == [i \in 1 .. (w * h) |-> func((i - 1) % w, (i - 1) \div w)]

\* the generators the tests pass to new_mapped: |x, y| 10 * y + x of
\* iter_test and |x, y| (x, y) of new_mapped_test
Funcs == {"iter_test", "new_mapped_test"}

call_func(f, x, y) == IF f = "iter_test" THEN func(x, y) ELSE <<x, y>>

\* Space::new_mapped(func, width, height) on entry
new_mapped_enter(f, w, h) ==
    [pc |-> "alloc", func |-> f, width |-> w, height |-> h,
     x |-> 0, y |-> 0, vec |-> <<>>, calls |-> <<>>]

\* Space::new_mapped with the loops nested the other way round
new_mapped_step_x_outer(m) ==
    IF m.pc = "alloc"
    THEN IF OverflowPanics(m.width * m.height) THEN [m EXCEPT !.pc = "panic"]
         ELSE [m EXCEPT !.pc = "loop"]
    ELSE IF m.x < m.width
         THEN IF m.y < m.height
              THEN [m EXCEPT !.vec = Append(@, call_func(m.func, m.x, m.y)),
                             !.calls = Append(@, <<m.x, m.y>>),
                             !.y = m.y + 1]
              ELSE [m EXCEPT !.y = 0, !.x = m.x + 1]
         ELSE [m EXCEPT !.pc = "return"]

\* Space::new_mapped, one step: the allocation, one pass of the inner loop
\* body, the end of a row, or the end of the outer loop
new_mapped_step(m) ==
    IF m.pc = "alloc"
    THEN IF OverflowPanics(m.width * m.height) THEN [m EXCEPT !.pc = "panic"]
         ELSE [m EXCEPT !.pc = "loop"]
    ELSE IF m.y < m.height
         THEN IF m.x < m.width
              THEN [m EXCEPT !.vec = Append(@, call_func(m.func, m.x, m.y)),
                             !.calls = Append(@, <<m.x, m.y>>),
                             !.x = m.x + 1]
              ELSE [m EXCEPT !.x = 0, !.y = m.y + 1]
         ELSE [m EXCEPT !.pc = "return"]

\* Space::get and Space::get_mut: the index of the element referred to
Space_get(x, y) ==
    LET raw == y * width + x
    IN  IF OverflowPanics(raw) THEN Panic
        ELSE LET index == Wrap(raw)
             IN  IF index < Len(data)
                 THEN [tag |-> "Some", index |-> index, value |-> data[index + 1]]
                 ELSE None

\* Space::set with the index taken as y * height + x
Space_set_height_stride(x, y, value) ==
    LET raw == y * height + x
    IN  IF OverflowPanics(raw) THEN [tag |-> "Panic", data |-> data]
        ELSE LET index == Wrap(raw)
             IN  IF index < Len(data)
                 THEN [tag |-> "Ok", flag |-> TRUE,
                       data |-> [data EXCEPT ![index + 1] = value]]
                 ELSE [tag |-> "Ok", flag |-> FALSE, data |-> data]

\* Space::set: the returned flag and the data afterwards
Space_set(x, y, value) ==
    LET raw == y * width + x
    IN  IF OverflowPanics(raw) THEN [tag |-> "Panic", data |-> data]
        ELSE LET index == Wrap(raw)
             IN  IF index < Len(data)
                 THEN [tag |-> "Ok", flag |-> TRUE,
                       data |-> [data EXCEPT ![index + 1] = value]]
                 ELSE [tag |-> "Ok", flag |-> FALSE, data |-> data]

\* --------------------------------------------------------------- SubSpace
View(x, y, w, h) == [x |-> x, y |-> y, width |-> w, height |-> h]

\* Space::as_subspace
as_subspace == View(0, 0, width, height)

\* SubSpace::convert_coord
SubSpace_convert_coord(self, pos_type, x, y) ==
    IF pos_type = "Absolute"
    THEN IF x < self.x THEN None
         ELSE IF OverflowPanics(self.x + self.width) THEN Panic
         ELSE IF x >= Wrap(self.x + self.width) THEN None
         ELSE IF y < self.y THEN None
         ELSE IF OverflowPanics(self.y + self.height) THEN Panic
         ELSE IF y >= Wrap(self.y + self.height) THEN None
         ELSE [tag |-> "Some", x |-> x, y |-> y]
    ELSE IF x > self.width \/ y > self.height THEN None
         ELSE IF OverflowPanics(self.x + x) \/ OverflowPanics(self.y + y) THEN Panic
         ELSE [tag |-> "Some", x |-> Wrap(self.x + x), y |-> Wrap(self.y + y)]

\* SubSpace::get
SubSpace_get(self, pos_type, x, y) ==
    LET coord == SubSpace_convert_coord(self, pos_type, x, y)
    IN  IF coord.tag = "Some" THEN Space_get(coord.x, coord.y) ELSE coord

\* SubSpace::split_horizontal
SubSpace_split_horizontal(self, pos_type, x_value) ==
    LET left_x == self.x
        raw_x == IF pos_type = "Absolute" THEN x_value ELSE self.x + x_value
    IN  IF OverflowPanics(raw_x) THEN Panic
        ELSE LET right_x == Wrap(raw_x)
             IN  IF right_x > self.width THEN Panic
                 ELSE IF OverflowPanics(right_x - left_x) THEN Panic
                 ELSE LET left_width == Wrap(right_x - left_x)
                      IN  IF OverflowPanics(self.width - left_width) THEN Panic
                          ELSE LET right_width == Wrap(self.width - left_width)
                               IN  [tag |-> "Ok",
                                    left |-> View(left_x, self.y, left_width, self.height),
                                    right |-> View(right_x, self.y, right_width, self.height)]

\* SubSpace::split_vertical
SubSpace_split_vertical(self, pos_type, y_value) ==
    LET above_y == self.y
        raw_y == IF pos_type = "Absolute" THEN y_value ELSE self.y + y_value
    IN  IF OverflowPanics(raw_y) THEN Panic
        ELSE LET below_y == Wrap(raw_y)
             IN  IF below_y > self.height THEN Panic
                 ELSE IF OverflowPanics(below_y - above_y) THEN Panic
                 ELSE LET above_height == Wrap(below_y - above_y)
                      IN  IF OverflowPanics(self.height - above_height) THEN Panic
                          ELSE LET below_height == Wrap(self.height - above_height)
                               IN  [tag |-> "Ok",
                                    above |-> View(self.x, above_y, self.width, above_height),
                                    below |-> View(self.x, below_y, self.width, below_height)]

\* SubSpace::iter
SubSpace_iter(self) == [parent |-> self, x |-> 0, y |-> 0]

\* SubSpaceIter::next with the row ending at x == width instead of width - 1
SubSpaceIter_next_late_wrap(it) ==
    LET result == SubSpace_get(it.parent, "Relative", it.x, it.y)
    IN  IF result.tag = "Panic" THEN [tag |-> "Panic", it |-> it]
        ELSE IF it.x = it.parent.width
             THEN IF OverflowPanics(it.y + 1) THEN [tag |-> "Panic", it |-> it]
                  ELSE [tag |-> "Ok", item |-> result,
                        it |-> [it EXCEPT !.x = 0, !.y = Wrap(it.y + 1)]]
             ELSE IF OverflowPanics(it.x + 1) THEN [tag |-> "Panic", it |-> it]
                  ELSE [tag |-> "Ok", item |-> result,
                        it |-> [it EXCEPT !.x = Wrap(it.x + 1)]]

\* SubSpaceIter::next: the item returned and the iterator afterwards
SubSpaceIter_next(it) ==
    LET result == SubSpace_get(it.parent, "Relative", it.x, it.y)
    IN  IF result.tag = "Panic" THEN [tag |-> "Panic", it |-> it]
        ELSE IF OverflowPanics(it.parent.width - 1) THEN [tag |-> "Panic", it |-> it]
        ELSE IF it.x = Wrap(it.parent.width - 1)
             THEN IF OverflowPanics(it.y + 1) THEN [tag |-> "Panic", it |-> it]
                  ELSE [tag |-> "Ok", item |-> result,
                        it |-> [it EXCEPT !.x = 0, !.y = Wrap(it.y + 1)]]
             ELSE IF OverflowPanics(it.x + 1) THEN [tag |-> "Panic", it |-> it]
                  ELSE [tag |-> "Ok", item |-> result,
                        it |-> [it EXCEPT !.x = Wrap(it.x + 1)]]

\* Space::clone_from_iter(iter, width, height): takes width * height items
\* from iter in order; no Space when iter ends before that
RECURSIVE TakeItems(_, _, _)
TakeItems(it, n, acc) ==
    IF n = 0 THEN [tag |-> "Some", items |-> acc]
    ELSE LET step == SubSpaceIter_next(it)
         IN  IF step.tag = "Panic" THEN Panic
             ELSE IF step.item.tag = "None" THEN None
             ELSE TakeItems(step.it, n - 1, Append(acc, step.item.value))

clone_from_iter(it, w, h) ==
    IF OverflowPanics(w * h) THEN Panic
    ELSE LET taken == TakeItems(it, Wrap(w * h), <<>>)
         IN  IF taken.tag = "Some"
             THEN [tag |-> "Some",
                   space |-> [width |-> w, height |-> h, data |-> taken.items]]
             ELSE taken

\* SubSpace::as_space: clone_from_iter(..).unwrap()
SubSpace_as_space(self) ==
    LET cloned == clone_from_iter(SubSpace_iter(self), self.width, self.height)
    IN  IF cloned.tag = "Some" THEN cloned ELSE Panic

\* ------------------------------------------------------------ SubSpaceMut
\* Space::as_subspace_mut
as_subspace_mut == View(0, 0, width, height)

\* SubSpaceMut::convert_coord
SubSpaceMut_convert_coord(self, pos_type, x, y) ==
    IF pos_type = "Absolute"
    THEN IF x < self.x THEN None
         ELSE IF OverflowPanics(self.x + self.width) THEN Panic
         ELSE IF x >= Wrap(self.x + self.width) THEN None
         ELSE IF y < self.y THEN None
         ELSE IF OverflowPanics(self.y + self.height) THEN Panic
         ELSE IF y >= Wrap(self.y + self.height) THEN None
         ELSE [tag |-> "Some", x |-> x, y |-> y]
    ELSE IF x > self.width \/ y > self.height THEN None
         ELSE IF OverflowPanics(self.x + x) \/ OverflowPanics(self.y + y) THEN Panic
         ELSE [tag |-> "Some", x |-> Wrap(self.x + x), y |-> Wrap(self.y + y)]

\* SubSpaceMut::get
SubSpaceMut_get(self, pos_type, x, y) ==
    LET coord == SubSpaceMut_convert_coord(self, pos_type, x, y)
    IN  IF coord.tag = "Some" THEN Space_get(coord.x, coord.y) ELSE coord

\* SubSpaceMut::set
SubSpaceMut_set(self, pos_type, x, y, value) ==
    LET coord == SubSpaceMut_convert_coord(self, pos_type, x, y)
    IN  IF coord.tag = "Some" THEN Space_set(coord.x, coord.y, value)
        ELSE IF coord.tag = "Panic" THEN [tag |-> "Panic", data |-> data]
        ELSE [tag |-> "Ok", flag |-> FALSE, data |-> data]

\* SubSpaceMut::split_horizontal
SubSpaceMut_split_horizontal(self, pos_type, x_value) ==
    LET left_x == self.x
        raw_x == IF pos_type = "Absolute" THEN x_value ELSE self.x + x_value
    IN  IF OverflowPanics(raw_x) THEN Panic
        ELSE LET right_x == Wrap(raw_x)
             IN  IF right_x > self.width THEN Panic
                 ELSE IF OverflowPanics(right_x - left_x) THEN Panic
                 ELSE LET left_width == Wrap(right_x - left_x)
                      IN  IF OverflowPanics(self.width - left_width) THEN Panic
                          ELSE LET right_width == Wrap(self.width - left_width)
                               IN  [tag |-> "Ok",
                                    left |-> View(left_x, self.y, left_width, self.height),
                                    right |-> View(right_x, self.y, right_width, self.height)]

\* SubSpaceMut::split_vertical
SubSpaceMut_split_vertical(self, pos_type, y_value) ==
    LET above_y == self.y
        raw_y == IF pos_type = "Absolute" THEN y_value ELSE self.y + y_value
    IN  IF OverflowPanics(raw_y) THEN Panic
        ELSE LET below_y == Wrap(raw_y)
             IN  IF below_y > self.height THEN Panic
                 ELSE IF OverflowPanics(below_y - above_y) THEN Panic
                 ELSE LET above_height == Wrap(below_y - above_y)
                      IN  IF OverflowPanics(self.height - above_height) THEN Panic
                          ELSE LET below_height == Wrap(self.height - above_height)
                               IN  [tag |-> "Ok",
                                    above |-> View(self.x, above_y, self.width, above_height),
                                    below |-> View(self.x, below_y, self.width, below_height)]

\* ---------------------------------------------------------------- actions
NoIter == [active |-> FALSE]

\* no Space::new_mapped call is under way
NoMapping == [pc |-> "none"]

\* a for loop over iter() runs until next() returns None; the iterator is
\* dropped by then
Looping == iter.active /\ ~iter.ended

Init ==
    /\ overflow_checks \in BOOLEAN
    /\ width \in 0 .. MaxWidth
    /\ height \in 0 .. MaxHeight
    /\ ~Overflows(width * height)
    /\ \/ \E value \in FlatValues : data = new_flat(value, width, height)
       \/ data = new_mapped(width, height)
    /\ borrow = "none"
    /\ subspaces = {}
    /\ subspaces_mut = <<>>
    /\ iter = NoIter
    /\ last = [op |-> "new"]
    /\ panicked = FALSE
    /\ ops = 0
    /\ mapping = NoMapping

\* space.get(x, y), allowed under a shared borrow too
Call_Space_get ==
    /\ ~panicked
    /\ ~Looping
    /\ borrow \in {"none", "shared"}
    /\ \E x \in SpaceCoords, y \in SpaceCoords :
          LET ret == Space_get(x, y)
          IN  /\ last' = [op |-> "Space_get", x |-> x, y |-> y, ret |-> ret]
              /\ panicked' = (ret.tag = "Panic")
    /\ UNCHANGED <<overflow_checks, mapping, width, height, data, borrow, subspaces,
                   subspaces_mut, ops>>
    /\ iter' = NoIter

\* space.set(x, y, value)
Call_Space_set ==
    /\ ~panicked
    /\ borrow = "none"
    /\ ops < MaxOps
    /\ \E x \in SpaceCoords, y \in SpaceCoords, value \in SetValues :
          LET ret == Space_set(x, y, value)
          IN  /\ data' = ret.data
              /\ last' = [op |-> "Space_set", x |-> x, y |-> y, value |-> value,
                          ret |-> ret, before |-> data]
              /\ panicked' = (ret.tag = "Panic")
    /\ ops' = ops + 1
    /\ UNCHANGED <<overflow_checks, mapping, width, height, borrow, subspaces,
                   subspaces_mut, iter>>

\* space.as_subspace()
Call_as_subspace ==
    /\ ~panicked
    /\ ~Looping
    /\ borrow \in {"none", "shared"}
    /\ borrow' = "shared"
    /\ subspaces' = subspaces \cup {as_subspace}
    /\ last' = [op |-> "as_subspace", ret |-> as_subspace]
    /\ UNCHANGED <<overflow_checks, mapping, width, height, data, subspaces_mut,
                   panicked, ops>>
    /\ iter' = NoIter

\* subspace.get(pos_type, x, y)
Call_SubSpace_get ==
    /\ ~panicked
    /\ ~Looping
    /\ \E self \in subspaces, pos_type \in PosTypes, x \in Coords, y \in Coords :
          LET ret == SubSpace_get(self, pos_type, x, y)
          IN  /\ last' = [op |-> "SubSpace_get", self |-> self, pos_type |-> pos_type,
                          x |-> x, y |-> y, ret |-> ret]
              /\ panicked' = (ret.tag = "Panic")
    /\ UNCHANGED <<overflow_checks, mapping, width, height, data, borrow, subspaces,
                   subspaces_mut, ops>>
    /\ iter' = NoIter

\* subspace.split_horizontal(pos_type, x_value): &self, the halves are new values
Call_SubSpace_split_horizontal ==
    /\ ~panicked
    /\ ~Looping
    /\ ops < MaxOps
    /\ \E self \in subspaces, pos_type \in PosTypes, x_value \in Coords :
          LET ret == SubSpace_split_horizontal(self, pos_type, x_value)
          IN  /\ last' = [op |-> "SubSpace_split_horizontal", self |-> self,
                          pos_type |-> pos_type, value |-> x_value, ret |-> ret]
              /\ panicked' = (ret.tag = "Panic")
              /\ subspaces' = IF ret.tag = "Ok"
                              THEN subspaces \cup {ret.left, ret.right}
                              ELSE subspaces
    /\ ops' = ops + 1
    /\ UNCHANGED <<overflow_checks, mapping, width, height, data, borrow, subspaces_mut>>
    /\ iter' = NoIter

\* subspace.split_vertical(pos_type, y_value)
Call_SubSpace_split_vertical ==
    /\ ~panicked
    /\ ~Looping
    /\ ops < MaxOps
    /\ \E self \in subspaces, pos_type \in PosTypes, y_value \in Coords :
          LET ret == SubSpace_split_vertical(self, pos_type, y_value)
          IN  /\ last' = [op |-> "SubSpace_split_vertical", self |-> self,
                          pos_type |-> pos_type, value |-> y_value, ret |-> ret]
              /\ panicked' = (ret.tag = "Panic")
              /\ subspaces' = IF ret.tag = "Ok"
                              THEN subspaces \cup {ret.above, ret.below}
                              ELSE subspaces
    /\ ops' = ops + 1
    /\ UNCHANGED <<overflow_checks, mapping, width, height, data, borrow, subspaces_mut>>
    /\ iter' = NoIter

\* subspace.iter(): yielded collects the indices of the elements returned
Call_SubSpace_iter ==
    /\ ~panicked
    /\ ~Looping
    /\ \E self \in subspaces :
          /\ iter' = [active |-> TRUE, it |-> SubSpace_iter(self),
                      yielded |-> <<>>, ended |-> FALSE]
          /\ last' = [op |-> "SubSpace_iter", self |-> self]
    /\ UNCHANGED <<overflow_checks, mapping, width, height, data, borrow, subspaces,
                   subspaces_mut, panicked, ops>>

\* iter.next(), until it returns None
Call_SubSpaceIter_next ==
    /\ ~panicked
    /\ iter.active
    /\ ~iter.ended
    /\ LET step == SubSpaceIter_next(iter.it)
       IN  /\ panicked' = (step.tag = "Panic")
           /\ last' = [op |-> "SubSpaceIter_next", ret |-> step]
           /\ iter' = IF step.tag = "Panic" THEN iter
                      ELSE IF step.item.tag = "None"
                      THEN [iter EXCEPT !.it = step.it, !.ended = TRUE]
                      ELSE [iter EXCEPT !.it = step.it,
                                        !.yielded = Append(@, step.item.index)]
    /\ UNCHANGED <<overflow_checks, mapping, width, height, data, borrow, subspaces,
                   subspaces_mut, ops>>

\* subspace.as_space()
Call_SubSpace_as_space ==
    /\ ~panicked
    /\ ~Looping
    /\ \E self \in subspaces :
          LET ret == SubSpace_as_space(self)
          IN  /\ last' = [op |-> "SubSpace_as_space", self |-> self, ret |-> ret]
              /\ panicked' = (ret.tag = "Panic")
    /\ UNCHANGED <<overflow_checks, mapping, width, height, data, borrow, subspaces,
                   subspaces_mut, ops>>
    /\ iter' = NoIter

\* space.as_subspace_mut(): needs the Space unborrowed
Call_as_subspace_mut ==
    /\ ~panicked
    /\ borrow = "none"
    /\ borrow' = "mut"
    /\ subspaces_mut' = <<[view |-> as_subspace_mut, alive |-> TRUE, parent |-> 0]>>
    /\ last' = [op |-> "as_subspace_mut", ret |-> as_subspace_mut]
    /\ UNCHANGED <<overflow_checks, mapping, width, height, data, subspaces, iter,
                   panicked, ops>>

Alive == {i \in DOMAIN subspaces_mut : subspaces_mut[i].alive}

\* subspace_mut.get(pos_type, x, y)
Call_SubSpaceMut_get ==
    /\ ~panicked
    /\ \E i \in Alive, pos_type \in PosTypes, x \in Coords, y \in Coords :
          LET self == subspaces_mut[i].view
              ret == SubSpaceMut_get(self, pos_type, x, y)
          IN  /\ last' = [op |-> "SubSpaceMut_get", id |-> i, self |-> self,
                          pos_type |-> pos_type, x |-> x, y |-> y, ret |-> ret]
              /\ panicked' = (ret.tag = "Panic")
    /\ UNCHANGED <<overflow_checks, mapping, width, height, data, borrow, subspaces,
                   subspaces_mut, iter, ops>>

\* subspace_mut.set(pos_type, x, y, value)
Call_SubSpaceMut_set ==
    /\ ~panicked
    /\ ops < MaxOps
    /\ \E i \in Alive, pos_type \in PosTypes, x \in Coords, y \in Coords,
          value \in SetValues :
          LET self == subspaces_mut[i].view
              ret == SubSpaceMut_set(self, pos_type, x, y, value)
          IN  /\ data' = ret.data
              /\ last' = [op |-> "SubSpaceMut_set", id |-> i, self |-> self,
                          pos_type |-> pos_type, x |-> x, y |-> y,
                          value |-> value, ret |-> ret, before |-> data]
              /\ panicked' = (ret.tag = "Panic")
    /\ ops' = ops + 1
    /\ UNCHANGED <<overflow_checks, mapping, width, height, borrow, subspaces,
                   subspaces_mut, iter>>

\* self is moved into the call: consumed, whatever the call returns
Consume(i) == [subspaces_mut EXCEPT ![i].alive = FALSE]

\* subspace_mut.split_horizontal(pos_type, x_value)
Call_SubSpaceMut_split_horizontal ==
    /\ ~panicked
    /\ ops < MaxOps
    /\ \E i \in Alive, pos_type \in PosTypes, x_value \in Coords :
          LET self == subspaces_mut[i].view
              ret == SubSpaceMut_split_horizontal(self, pos_type, x_value)
          IN  /\ last' = [op |-> "SubSpaceMut_split_horizontal", id |-> i,
                          self |-> self, pos_type |-> pos_type,
                          value |-> x_value, ret |-> ret]
              /\ panicked' = (ret.tag = "Panic")
              /\ subspaces_mut' =
                    IF ret.tag = "Ok"
                    THEN Consume(i) \o
                         <<[view |-> ret.left, alive |-> TRUE, parent |-> i],
                           [view |-> ret.right, alive |-> TRUE, parent |-> i]>>
                    ELSE Consume(i)
    /\ ops' = ops + 1
    /\ UNCHANGED <<overflow_checks, mapping, width, height, data, borrow, subspaces, iter>>

\* subspace_mut.split_vertical(pos_type, y_value)
Call_SubSpaceMut_split_vertical ==
    /\ ~panicked
    /\ ops < MaxOps
    /\ \E i \in Alive, pos_type \in PosTypes, y_value \in Coords :
          LET self == subspaces_mut[i].view
              ret == SubSpaceMut_split_vertical(self, pos_type, y_value)
          IN  /\ last' = [op |-> "SubSpaceMut_split_vertical", id |-> i,
                          self |-> self, pos_type |-> pos_type,
                          value |-> y_value, ret |-> ret]
              /\ panicked' = (ret.tag = "Panic")
              /\ subspaces_mut' =
                    IF ret.tag = "Ok"
                    THEN Consume(i) \o
                         <<[view |-> ret.above, alive |-> TRUE, parent |-> i],
                           [view |-> ret.below, alive |-> TRUE, parent |-> i]>>
                    ELSE Consume(i)
    /\ ops' = ops + 1
    /\ UNCHANGED <<overflow_checks, mapping, width, height, data, borrow, subspaces, iter>>

Next ==
    \/ Call_Space_get
    \/ Call_Space_set
    \/ Call_as_subspace
    \/ Call_SubSpace_get
    \/ Call_SubSpace_split_horizontal
    \/ Call_SubSpace_split_vertical
    \/ Call_SubSpace_iter
    \/ Call_SubSpaceIter_next
    \/ Call_SubSpace_as_space
    \/ Call_as_subspace_mut
    \/ Call_SubSpaceMut_get
    \/ Call_SubSpaceMut_set
    \/ Call_SubSpaceMut_split_horizontal
    \/ Call_SubSpaceMut_split_vertical

Spec == Init /\ [][Next]_vars

\* Space::new_mapped(func, width, height) has been called; no Space exists
\* before it returns
InitMapped ==
    /\ overflow_checks \in BOOLEAN
    /\ \E f \in Funcs, w \in 0 .. MaxWidth, h \in 0 .. MaxHeight :
          mapping = new_mapped_enter(f, w, h)
    /\ width = 0
    /\ height = 0
    /\ data = <<>>
    /\ borrow = "none"
    /\ subspaces = {}
    /\ subspaces_mut = <<>>
    /\ iter = NoIter
    /\ last = [op |-> "new_mapped"]
    /\ panicked = FALSE
    /\ ops = 0

\* the body of new_mapped advances by one step
Run_new_mapped ==
    /\ ~panicked
    /\ mapping.pc \in {"alloc", "loop"}
    /\ mapping' = new_mapped_step(mapping)
    /\ panicked' = (mapping'.pc = "panic")
    /\ UNCHANGED <<overflow_checks, width, height, data, borrow, subspaces,
                   subspaces_mut, iter, last, ops>>

\* Space { data: vec.into_boxed_slice(), width, height }
Return_new_mapped ==
    /\ ~panicked
    /\ mapping.pc = "return"
    /\ mapping' = [mapping EXCEPT !.pc = "returned"]
    /\ data' = mapping.vec
    /\ width' = mapping.width
    /\ height' = mapping.height
    /\ last' = [op |-> "new_mapped", ret |-> "Space"]
    /\ UNCHANGED <<overflow_checks, borrow, subspaces, subspaces_mut, iter,
                   panicked, ops>>

\* the construction by new_mapped, then reads of the Space it returned
MappedNext ==
    \/ Run_new_mapped
    \/ Return_new_mapped
    \/ (mapping.pc = "returned" /\ Call_Space_get)

SpecMapped == InitMapped /\ [][MappedNext]_vars

\* the calls on the Space and on its full read-only view
SpaceNext ==
    \/ Call_Space_get
    \/ Call_Space_set
    \/ Call_as_subspace
    \/ Call_SubSpace_as_space

SpecSpace == Init /\ [][SpaceNext]_vars

\* the calls of a program that only reads: the Space and its SubSpaces
SharedNext ==
    \/ Call_Space_get
    \/ Call_as_subspace
    \/ Call_SubSpace_get
    \/ Call_SubSpace_split_horizontal
    \/ Call_SubSpace_split_vertical
    \/ Call_SubSpace_iter
    \/ Call_SubSpaceIter_next
    \/ Call_SubSpace_as_space

SpecShared == Init /\ [][SharedNext]_vars

\* ----------------------------------------------------------------- claims
\* the cell (x, y) of the grid that holds the element at index
CellOf(index) == <<index % width, index \div width>>

\* the cells of a view's rectangle
Rect(v) ==
    {c \in (0 .. UsizeMax) \X (0 .. UsizeMax) :
        /\ v.x <= c[1] /\ c[1] < v.x + v.width
        /\ v.y <= c[2] /\ c[2] < v.y + v.height}

GridRect == (0 .. width - 1) \X (0 .. height - 1)

\* C6: for every (x, y) with x >= width or y >= height (and an index
\* y * width + x that fits a usize) Space::get returns None and Space::set
\* returns false and changes no cell
C6_OutOfRangeRejected ==
    /\ (/\ last.op = "Space_get"
        /\ last.x >= width \/ last.y >= height
        /\ ~Overflows(last.y * width + last.x))
       => last.ret.tag = "None"
    /\ (/\ last.op = "Space_set"
        /\ last.x >= width \/ last.y >= height
        /\ ~Overflows(last.y * width + last.x))
       => (last.ret.tag = "Ok" /\ ~last.ret.flag /\ data = last.before)

C8_FullViewRoundTrip ==
    (/\ last.op = "SubSpace_as_space"
     /\ last.self = as_subspace)
    => /\ last.ret.tag = "Some"
       /\ last.ret.space.width = width
       /\ last.ret.space.height = height
       /\ last.ret.space.data = data

\* the full view of a grid of several rows and columns whose cells differ
\* has been materialized
C8_Witness ==
    /\ last.op = "SubSpace_as_space"
    /\ last.self = as_subspace
    /\ last.ret.tag = "Some"
    /\ width >= 2
    /\ height >= 2
    /\ \E i, j \in DOMAIN data : data[i] # data[j]

\* the SubSpaceMut values produced by the same split as i
Siblings(i) ==
    {j \in Alive : j # i /\ subspaces_mut[i].parent # 0
                   /\ subspaces_mut[j].parent = subspaces_mut[i].parent}

\* C1: after a split of a mutable view, no set through one child changes
\* what a successful get through the other child returns for a cell of that
\* other child's rectangle
C1_SiblingWritesInvisible ==
    (/\ last.op = "SubSpaceMut_set"
     /\ last.ret.tag = "Ok")
    => \A j \in Siblings(last.id) :
          \A pos_type \in PosTypes, x \in 0 .. UsizeMax, y \in 0 .. UsizeMax :
             LET got == SubSpaceMut_get(subspaces_mut[j].view, pos_type, x, y)
             IN  (/\ got.tag = "Some"
                  /\ CellOf(got.index) \in Rect(subspaces_mut[j].view))
                 => got.value = last.before[got.index + 1]

\* C2: the rectangles of the live mutable views are pairwise disjoint and
\* cover exactly the grid, and a view that has been split is not live
C2_LiveViewsPartition ==
    (borrow = "mut" /\ ~panicked)
    => /\ \A i, j \in Alive :
             i # j => Rect(subspaces_mut[i].view) \cap Rect(subspaces_mut[j].view) = {}
       /\ UNION {Rect(subspaces_mut[i].view) : i \in Alive} = GridRect
       /\ \A i, j \in DOMAIN subspaces_mut :
             subspaces_mut[j].parent = i => ~subspaces_mut[i].alive

HorizontalSplits == {"SubSpace_split_horizontal", "SubSpaceMut_split_horizontal"}

VerticalSplits == {"SubSpace_split_vertical", "SubSpaceMut_split_vertical"}

\* the column (row) of the view that the last split was asked to cut at
SplitOffset(origin) ==
    IF last.pos_type = "Relative" THEN last.value ELSE last.value - origin

\* C3: a split of a view of width W at any column 0 <= c <= W (of height H
\* at any row 0 <= r <= H) does not abort and returns halves whose widths
\* (heights) add up to W (H), origin and extent on the other axis unchanged
C3_SplitInsideSucceeds ==
    /\ (/\ last.op \in HorizontalSplits
        /\ 0 <= SplitOffset(last.self.x)
        /\ SplitOffset(last.self.x) <= last.self.width)
       => /\ last.ret.tag = "Ok"
          /\ last.ret.left.width + last.ret.right.width = last.self.width
          /\ last.ret.left.y = last.self.y /\ last.ret.right.y = last.self.y
          /\ last.ret.left.height = last.self.height
          /\ last.ret.right.height = last.self.height
    /\ (/\ last.op \in VerticalSplits
        /\ 0 <= SplitOffset(last.self.y)
        /\ SplitOffset(last.self.y) <= last.self.height)
       => /\ last.ret.tag = "Ok"
          /\ last.ret.above.height + last.ret.below.height = last.self.height
          /\ last.ret.above.x = last.self.x /\ last.ret.below.x = last.self.x
          /\ last.ret.above.width = last.self.width
          /\ last.ret.below.width = last.self.width

\* the cells for which get(Relative, x, y) through view v returns a value
RelativeReach(op, v) ==
    {CellOf(got.index) :
        got \in {g \in {IF op = "SubSpace_split_horizontal"
                        THEN SubSpace_get(v, "Relative", x, y)
                        ELSE SubSpaceMut_get(v, "Relative", x, y) :
                        x \in 0 .. UsizeMax, y \in 0 .. UsizeMax} :
                    g.tag = "Some"}}

\* C4: after a horizontal split the cells reachable by relative get through
\* left and through right are disjoint and together are the parent's cells
C4_RelativeReachPartition ==
    (/\ last.op \in HorizontalSplits
     /\ last.ret.tag = "Ok")
    => /\ RelativeReach(last.op, last.ret.left)
             \cap RelativeReach(last.op, last.ret.right) = {}
       /\ RelativeReach(last.op, last.ret.left)
             \cup RelativeReach(last.op, last.ret.right) = Rect(last.self)

\* the indices of the cells of v's rectangle in row-major order
RowMajor(v) ==
    [k \in 1 .. (v.width * v.height) |->
        (v.y + ((k - 1) \div v.width)) * width + v.x + ((k - 1) % v.width)]

IsPrefix(s, t) == Len(s) <= Len(t) /\ \A k \in 1 .. Len(s) : s[k] = t[k]

\* C5: iter() of a read-only view of width W and height H yields the W * H
\* cells of its rectangle in row-major order, and then ends
C5_IterRowMajor ==
    /\ last.op = "SubSpaceIter_next" => last.ret.tag = "Ok"
    /\ iter.active =>
          /\ IsPrefix(iter.yielded, RowMajor(iter.it.parent))
          /\ iter.ended => iter.yielded = RowMajor(iter.it.parent)

\* the split line of the last split in absolute coordinates, as asked for
SplitLine(origin) ==
    IF last.pos_type = "Absolute" THEN last.value ELSE origin + last.value

Contains(outer, inner) ==
    /\ outer.x <= inner.x /\ inner.x + inner.width <= outer.x + outer.width
    /\ outer.y <= inner.y /\ inner.y + inner.height <= outer.y + outer.height

\* C9: a split whose line lies outside the view's extent aborts, and no
\* split returns a child whose rectangle is not inside the parent's
C9_OutsideSplitAborts ==
    /\ (/\ last.op \in HorizontalSplits
        /\ \/ SplitLine(last.self.x) < last.self.x
           \/ SplitLine(last.self.x) > last.self.x + last.self.width)
       => last.ret.tag = "Panic"
    /\ (/\ last.op \in VerticalSplits
        /\ \/ SplitLine(last.self.y) < last.self.y
           \/ SplitLine(last.self.y) > last.self.y + last.self.height)
       => last.ret.tag = "Panic"
    /\ (last.op \in HorizontalSplits /\ last.ret.tag = "Ok")
       => Contains(last.self, last.ret.left) /\ Contains(last.self, last.ret.right)
    /\ (last.op \in VerticalSplits /\ last.ret.tag = "Ok")
       => Contains(last.self, last.ret.above) /\ Contains(last.self, last.ret.below)

\* C10: every view that exists lies inside the grid
C10_ViewsInsideGrid ==
    \A v \in subspaces \cup {subspaces_mut[i].view : i \in DOMAIN subspaces_mut} :
       /\ v.x + v.width <= width
       /\ v.y + v.height <= height

\* the positions of a w by h grid in row-major order
RowMajorCalls(w, h) == [k \in 1 .. (w * h) |-> <<(k - 1) % w, (k - 1) \div w>>]

\* C11: new_mapped calls func exactly once per cell, in row-major order,
\* and in the Space it returns get(x, y) is func(x, y) for every cell
C11_MappedRowMajor ==
    /\ mapping.pc \in {"loop", "return", "returned"}
       => IsPrefix(mapping.calls, RowMajorCalls(mapping.width, mapping.height))
    /\ mapping.pc \in {"return", "returned"}
       => mapping.calls = RowMajorCalls(mapping.width, mapping.height)
    /\ mapping.pc = "returned"
       => /\ width = mapping.width
          /\ height = mapping.height
          /\ \A x \in 0 .. width - 1, y \in 0 .. height - 1 :
                /\ Space_get(x, y).tag = "Some"
                /\ Space_get(x, y).value = call_func(mapping.func, x, y)

\* new_mapped has returned a Space of several rows and columns
C11_Witness ==
    /\ mapping.pc = "returned"
    /\ width >= 2
    /\ height >= 2
    /\ Len(mapping.calls) = width * height

ViewGets == {"SubSpace_get", "SubSpaceMut_get"}

ViewCalls == ViewGets \cup {"SubSpaceMut_set"}

\* what the coordinate resolver returned to the last get or set through a view
LastCoord ==
    IF last.op = "SubSpace_get"
    THEN SubSpace_convert_coord(last.self, last.pos_type, last.x, last.y)
    ELSE SubSpaceMut_convert_coord(last.self, last.pos_type, last.x, last.y)

\* C12: for every view and query the resolver returns no value or a pair
\* (ax, ay) with ax < width and ay < height of the grid, and the access
\* delegated to the Space reads or writes the cell (ax, ay) and no other
C12_ResolvedCoordInGrid ==
    last.op \in ViewCalls
    => \/ LastCoord.tag = "None"
       \/ /\ LastCoord.tag = "Some"
          /\ LastCoord.x < width
          /\ LastCoord.y < height
          /\ last.op \in ViewGets
             => (last.ret.tag = "Some"
                 /\ CellOf(last.ret.index) = <<LastCoord.x, LastCoord.y>>)
          /\ last.op = "SubSpaceMut_set"
             => /\ last.ret.tag = "Ok"
                /\ last.ret.flag
                /\ \A i \in DOMAIN data :
                      CellOf(i - 1) # <<LastCoord.x, LastCoord.y>>
                      => data[i] = last.before[i]

\* C13: Space::get and Space::set with coordinates whose index
\* y * width + x exceeds usize::MAX neither abort nor reach a cell: get
\* returns None, set returns false and changes no cell
C13_OverflowingIndexRejected ==
    /\ (last.op = "Space_get" /\ Overflows(last.y * width + last.x))
       => last.ret.tag = "None"
    /\ (last.op = "Space_set" /\ Overflows(last.y * width + last.x))
       => (last.ret.tag = "Ok" /\ ~last.ret.flag /\ data = last.before)
====
